---- MODULE Spec2Model ----
(***************************************************************************)
(* Model of the ClawdNet SDK (src/src/index.ts): the webhook signature     *)
(* verifier verifyWebhookSignature and the HTTP client class ClawdNet.     *)
(*                                                                         *)
(* JavaScript strings are TLA+ strings (sequences of characters): Len, \o  *)
(* and SubSeq are String.length, concatenation and substring.  All strings *)
(* of the model are ASCII, so a string's UTF-8 byte length (Buffer.from)   *)
(* equals its length.                                                      *)
(***************************************************************************)
EXTENDS Integers, Sequences, FiniteSets, TLC

VARIABLES
    now,        \* the verifier's clock: Math.floor(Date.now() / 1000)
    vcall,      \* the arguments of the last verifyWebhookSignature call
    vres,       \* how that call completed
    client,     \* the ClawdNet instance: its apiKey and baseUrl
    called,     \* the client method called last
    pc,         \* "waiting" for the response of that call, "reading" its body
    request,    \* the HTTP request that call issued, if any
    response,   \* the HTTP response it got, if any
    settled     \* how the promise of that call settled

vars == <<now, vcall, vres, client, called, pc, request, response, settled>>
verifierVars == <<now, vcall, vres>>
clientVars == <<client, called, pc, request, response, settled>>

(***************************************************************************)
(* Bounds of the model.                                                    *)
(***************************************************************************)
\* How many seconds the verifier's clock advances past its initial value.
MaxTicks == 2

(***************************************************************************)
(* String primitives of JavaScript used by the code.                       *)
(***************************************************************************)
\* String.prototype.startsWith
StartsWith(s, prefix) ==
    /\ Len(s) >= Len(prefix)
    /\ SubSeq(s, 1, Len(prefix)) = prefix

\* String.prototype.slice(n) for 0 <= n
Slice(s, n) == IF n >= Len(s) THEN "" ELSE SubSeq(s, n + 1, Len(s))

\* Index of the first occurrence of the one-character string c in s at or
\* after position i, or Len(s) + 1 when there is none.
RECURSIVE IndexFrom(_, _, _)
IndexFrom(s, c, i) ==
    IF i > Len(s) THEN Len(s) + 1
    ELSE IF SubSeq(s, i, i) = c THEN i
    ELSE IndexFrom(s, c, i + 1)

\* String.prototype.split(sep) for a one-character separator: the pieces
\* between the separators, in order; "" splits into <<"">>.
RECURSIVE Split(_, _)
Split(s, sep) ==
    LET i == IndexFrom(s, sep, 1)
    IN  IF i > Len(s) THEN <<s>>
        ELSE <<SubSeq(s, 1, i - 1)>> \o Split(Slice(s, i), sep)

\* String.prototype.includes
Includes(s, sub) ==
    \E i \in 1..(Len(s) - Len(sub) + 1) : SubSeq(s, i, i + Len(sub) - 1) = sub

Digits == <<"0", "1", "2", "3", "4", "5", "6", "7", "8", "9">>

IsDigit(c) == \E d \in 1..10 : Digits[d] = c

DigitValue(c) == (CHOOSE d \in 1..10 : Digits[d] = c) - 1

\* String(n) for an integer n >= 0: its decimal text.
RECURSIVE NumberToString(_)
NumberToString(n) ==
    IF n < 10 THEN Digits[n + 1]
    ELSE NumberToString(n \div 10) \o Digits[(n % 10) + 1]

\* An optional value (undefined | string), as `find(...)?.slice(k)` yields.
Undefined == [defined |-> FALSE, s |-> ""]
Some(s) == [defined |-> TRUE, s |-> s]

\* A number that may be NaN, as parseInt yields.
NaN == [nan |-> TRUE, n |-> 0]
Num(n) == [nan |-> FALSE, n |-> n]

\* The value of the longest run of decimal digits starting at position i of
\* s, continuing from the accumulated value acc.
RECURSIVE DigitRun(_, _, _)
DigitRun(s, i, acc) ==
    IF i <= Len(s) /\ IsDigit(SubSeq(s, i, i))
    THEN DigitRun(s, i + 1, acc * 10 + DigitValue(SubSeq(s, i, i)))
    ELSE acc

\* The white space parseInt skips (StrWhiteSpaceChar) among the characters
\* of the model, which are ASCII: space, tab, line feed, carriage return,
\* form feed and vertical tab (the last written as the character itself).
WhiteSpace == {" ", "\t", "\n", "\r", "\f", ""}

\* Position of the first character of s at or after i that is not white
\* space.
RECURSIVE SkipSpace(_, _)
SkipSpace(s, i) ==
    IF i <= Len(s) /\ SubSeq(s, i, i) \in WhiteSpace THEN SkipSpace(s, i + 1) ELSE i

\* parseInt(s, 10): leading white space is skipped, an optional sign is
\* read, then the longest run of decimal digits; anything after the run is
\* ignored, and no digit at all gives NaN.
ParseInt(s) ==
    LET b == SkipSpace(s, 1)
        signed == b <= Len(s) /\ SubSeq(s, b, b) \in {"+", "-"}
        d == IF signed THEN b + 1 ELSE b
        negative == signed /\ SubSeq(s, b, b) = "-"
    IN  IF d <= Len(s) /\ IsDigit(SubSeq(s, d, d))
        THEN Num(IF negative THEN 0 - DigitRun(s, d, 0) ELSE DigitRun(s, d, 0))
        ELSE NaN

\* Math.abs
Abs(x) == IF x < 0 THEN 0 - x ELSE x

(***************************************************************************)
(* verifyWebhookSignature (src/src/index.ts, lines 259-283).               *)
(***************************************************************************)
\* The default of the toleranceSeconds parameter.
DefaultTolerance == 300

\* A toleranceSeconds argument: omitted by the caller, or a number.
Omitted == [omitted |-> TRUE, value |-> 0]
Given(n) == [omitted |-> FALSE, value |-> n]

\* toleranceSeconds = 300: the default parameter value.
ToleranceSeconds(arg) == IF arg.omitted THEN DefaultTolerance ELSE arg.value

\* The mutation of FindField that slices two characters whatever the prefix.
FindFieldSliceTwo(parts, prefix, k) ==
    IF \E i \in 1..Len(parts) : StartsWith(parts[i], prefix)
    THEN LET first == CHOOSE i \in 1..Len(parts) :
                 /\ StartsWith(parts[i], prefix)
                 /\ \A j \in 1..(i - 1) : ~StartsWith(parts[j], prefix)
         IN  Some(Slice(parts[first], 2))
    ELSE Undefined

\* parts.find((p) => p.startsWith(prefix))?.slice(k): the first part with
\* the prefix, without its first k characters; undefined when there is none.
FindField(parts, prefix, k) ==
    IF \E i \in 1..Len(parts) : StartsWith(parts[i], prefix)
    THEN LET first == CHOOSE i \in 1..Len(parts) :
                 /\ StartsWith(parts[i], prefix)
                 /\ \A j \in 1..(i - 1) : ~StartsWith(parts[j], prefix)
         IN  Some(Slice(parts[first], k))
    ELSE Undefined

\* !x for an optional string: undefined and '' are falsy.
Falsy(x) == ~x.defined \/ x.s = ""

\* The mutation of MissingField that tests for undefined only.
MissingFieldUndefinedOnly(timestamp, sig) == ~timestamp.defined \/ ~sig.defined

\* !timestamp || !sig
MissingField(timestamp, sig) == Falsy(timestamp) \/ Falsy(sig)

\* The mutation of OutsideTolerance that rejects at the limit itself.
OutsideToleranceStrict(clock, ts, tolerance) ==
    IF ts.nan THEN FALSE ELSE Abs(clock - ts.n) >= tolerance

\* Math.abs(now - ts) > toleranceSeconds; every comparison with NaN is false.
OutsideTolerance(clock, ts, tolerance) ==
    IF ts.nan THEN FALSE ELSE Abs(clock - ts.n) > tolerance

\* The mutation of HmacMessage that leaves the payload out.
HmacMessageNoPayload(timestamp, payload) == timestamp \o "."

\* `${timestamp}.${payload}`
HmacMessage(timestamp, payload) == timestamp \o "." \o payload

\* HMAC-SHA256 digests, in lowercase hexadecimal, of every (key, message)
\* pair the model's inputs can lead to.
HmacTable ==
    (<<"whsec_test", ".{\"event\":\"invocation\"}">> :> "acf6a0cdaca4bd16db6046b34f4d95d29d2c590bb6375bedf22475414f1e7ce5") @@
    (<<"whsec_test", ".{\"event\":\"invocatioN\"}">> :> "1eb8bd77dc00c1d08ded308b2088d244e45635d12692815c1838f73ffb8589a6") @@
    (<<"whsec_test", ".">> :> "127d2e021cd6238ea68c4a4d58fa0a0f27c0cfb536402063712ecf09e405ec44") @@
    (<<"whsec_test", "1699999699.{\"event\":\"invocation\"}">> :> "7622836083372a73a5b8faf2642ad7fb106b68442c73cf10db274d1da138d8c7") @@
    (<<"whsec_test", "1699999699.{\"event\":\"invocatioN\"}">> :> "48987196b08d72eafe69db12f81d0f4f17628925f88f14bbe7ad69f60ccc80b0") @@
    (<<"whsec_test", "1699999699.">> :> "16eab60b845645fee66593b4fdcd16f79b6da69c7305ee7dfa9f9def836311a1") @@
    (<<"whsec_test", "1699999700.{\"event\":\"invocation\"}">> :> "87b51f4eacd1ca035d081c174dfcd3125d0bbdb3bc8e8b7a1dbbf23a7c3d76cd") @@
    (<<"whsec_test", "1699999700.{\"event\":\"invocatioN\"}">> :> "21f78610609152aa01f3307731e819e8ad0e15c9ead2286fd7d0be0fe03ae574") @@
    (<<"whsec_test", "1699999700.">> :> "e8485c3e9b4bd039d8a3d4c8ff531e871e0c6cdf62079898b12de4fb382cfaf3") @@
    (<<"whsec_test", "1700000000.{\"event\":\"invocation\"}">> :> "909034ad1e37b4d1208f241a46e21394379560ced0e65e0ae9d7108b804bb9b3") @@
    (<<"whsec_test", "1700000000.{\"event\":\"invocatioN\"}">> :> "ac374e9749b43012293c088bf87b0b262d47f48096d4341c493e61e0ab66a28a") @@
    (<<"whsec_test", "1700000000.">> :> "5967f3c560522fa40cf2876ebc3c3a08551dd6959aaade3b413460591895bdcc") @@
    (<<"whsec_test", "1700000002.{\"event\":\"invocation\"}">> :> "b0754aab73903b341737dc74aa0a56d60930cda68de178b9f1e173c4e2b6f3de") @@
    (<<"whsec_test", "1700000002.{\"event\":\"invocatioN\"}">> :> "1012894eee8d0a69e9d34f19cdcbc21a23e830cf9f68001a75eaf72bae3e44fa") @@
    (<<"whsec_test", "1700000002.">> :> "2fd8d1ee8201f51f81958ea013fac6f41b53fc929b2bf5d9b82be4f145e6f3b6") @@
    (<<"whsec_test", "1700000300.{\"event\":\"invocation\"}">> :> "07e8dfcc268bc5671c88a8f439d0a60470ceb28dbec7b2b257d150f97101aefb") @@
    (<<"whsec_test", "1700000300.{\"event\":\"invocatioN\"}">> :> "58d39b37f2b6c68a656074e049b8cd3ecb79974fe44fe93d97b8f72345d81dae") @@
    (<<"whsec_test", "1700000300.">> :> "3a2bec9b5511fdc4fdd9c27c9f31c2171ef29288ea7c67efc6e9a16e35043539") @@
    (<<"whsec_test", "1700000301.{\"event\":\"invocation\"}">> :> "e02a9f0414232116ecfdc746afed514d57b1ce97262b31f1b504b9c08a48783b") @@
    (<<"whsec_test", "1700000301.{\"event\":\"invocatioN\"}">> :> "1f9c62f9621c7bd18d55b869fb48b8333c682727e92d1570dcdb8e9affb04a1e") @@
    (<<"whsec_test", "1700000301.">> :> "296de5c303c879063afd6682d21bd1ce200390c297b3954b12e34d1468aa2b98") @@
    (<<"whsec_test", "abc.{\"event\":\"invocation\"}">> :> "70b5b76b872475780440d449ba36d6a09ea9612b5020e1b67caf0763dfa407a0") @@
    (<<"whsec_test", "abc.{\"event\":\"invocatioN\"}">> :> "26b3eb6a8a709046df370596f08a95e24c8285cf3433d012cda2f2b334f2709e") @@
    (<<"whsec_test", "abc.">> :> "d194d90f2f0443611334095e1d3de53c28874389020ca76f844d10451e3ef7eb") @@
    (<<"whsec_test", "1700000000abc.{\"event\":\"invocation\"}">> :> "2f12860c552b4c16efe709d5a3020b8a46fb1b0138c2b5e38e3416878e55ffd8") @@
    (<<"whsec_test", "1700000000abc.{\"event\":\"invocatioN\"}">> :> "38f64d1454468889011064db7a3b825f2ce256c0d745453e37461ca37b7dcf06") @@
    (<<"whsec_test", "1700000000abc.">> :> "a93a5b6685d83576d7bbb62af0844feebf17b7c98fe84dcc9d3da76236c67422") @@
    (<<"whsec_other", ".{\"event\":\"invocation\"}">> :> "cbc800fc9cbd2144e4e2c5dfb1efad30754798b9c200372e51b2a0e91e772b3b") @@
    (<<"whsec_other", ".{\"event\":\"invocatioN\"}">> :> "23f9b42c0b9b2cb32139c5c57716ba89fb867cf54ac2e945594c04882ad21887") @@
    (<<"whsec_other", ".">> :> "d301e140b6405412f2f801c078d0d3f50110e483a6246fbca7fde5fe66306181") @@
    (<<"whsec_other", "1699999699.{\"event\":\"invocation\"}">> :> "3cbc96d1e4f53c2a214b7c7be6befefa3bfd1d585b3c27989b9e07ab301f0eb1") @@
    (<<"whsec_other", "1699999699.{\"event\":\"invocatioN\"}">> :> "32f73dcdadae935d4b5e21428a614ca78e45e77868eabf78f1ba59bd76fa12cc") @@
    (<<"whsec_other", "1699999699.">> :> "136f66237bd61d8c27ace44b6571f47acdb17e2a3109479c58d6093f66233ae5") @@
    (<<"whsec_other", "1699999700.{\"event\":\"invocation\"}">> :> "a94fc7bc597de371e9d7712b4c2e6d3736ec6ca64405b12d64f767778fc9aaa9") @@
    (<<"whsec_other", "1699999700.{\"event\":\"invocatioN\"}">> :> "8c7670093e8720b0e429379358ed286a113e4ff99ecb9b1d3a2f64caceec17ec") @@
    (<<"whsec_other", "1699999700.">> :> "228a894fe18f4a7e13b857d4cf7c853a70f6dda6d60a815017494afadd5b1897") @@
    (<<"whsec_other", "1700000000.{\"event\":\"invocation\"}">> :> "abf609d41d67531bee8edc26d014e21064b82aa72db3b1cae2dad12248bd9ecf") @@
    (<<"whsec_other", "1700000000.{\"event\":\"invocatioN\"}">> :> "49db8777ca6125068ad2a33452cd2d59f2867976764d12175525e785fe9a1c13") @@
    (<<"whsec_other", "1700000000.">> :> "78c9dc98dcb2f73b54d786e202860ef9bd8e483f096e479745b117468bf19252") @@
    (<<"whsec_other", "1700000002.{\"event\":\"invocation\"}">> :> "d22c6bb6da8ca844c2bdbef7d58386d08bf56fa4c72ca94eb297fab5bc55da1b") @@
    (<<"whsec_other", "1700000002.{\"event\":\"invocatioN\"}">> :> "3c6cab910e2c7a820468d74159d20107d64d94e9375d615f54533d610a47a408") @@
    (<<"whsec_other", "1700000002.">> :> "08bcec5512924b51aa4bdac1de5a883d1667ac495617bd81f6df1ae02aeb993d") @@
    (<<"whsec_other", "1700000300.{\"event\":\"invocation\"}">> :> "9357602b01827beefccd2f72c152ce759547931ca17abba7029be535806cba25") @@
    (<<"whsec_other", "1700000300.{\"event\":\"invocatioN\"}">> :> "c2dd717b7e247a373333039f947511c655ca4d21aa220ccd4c616d65e58457f3") @@
    (<<"whsec_other", "1700000300.">> :> "bf8adb8eefd388b3c597e8a22ca938aa04c76e6d39cdcd05c7073c4819de27b3") @@
    (<<"whsec_other", "1700000301.{\"event\":\"invocation\"}">> :> "fa2cc3c712347ea0d9bc8b6c5c9cad7a962d086a981b89f078a1f61140ae7814") @@
    (<<"whsec_other", "1700000301.{\"event\":\"invocatioN\"}">> :> "72badef3efb6f66801ac62527f9920a6263b24a1d3f7bb4c192becf9b334d1eb") @@
    (<<"whsec_other", "1700000301.">> :> "e77e326277e6124c293b5611d4d66b95d446012ca1289afb0dcbaa57b86633d7") @@
    (<<"whsec_other", "abc.{\"event\":\"invocation\"}">> :> "7f24ad20e93c39ee0f600c054e0a6c534137a81fdee9d41778c57e6ff99bca5e") @@
    (<<"whsec_other", "abc.{\"event\":\"invocatioN\"}">> :> "45554e1b38f3381cdf963e9acf763fde8fd8070f3aa31bbf6cb3faf3360376b7") @@
    (<<"whsec_other", "abc.">> :> "8360a2a9cc92f5fb97c7270328b1520132e318c4d542e68292e3403b591035a4") @@
    (<<"whsec_other", "1700000000abc.{\"event\":\"invocation\"}">> :> "8d75ba0dfdc068debe033506bcb14d8d2bd59bb013ba6ad059912c293f2fe0bf") @@
    (<<"whsec_other", "1700000000abc.{\"event\":\"invocatioN\"}">> :> "75db7cd730cbe0b13f6bb9da8817c04e1358da04bde47a455f4a442024ce101d") @@
    (<<"whsec_other", "1700000000abc.">> :> "c95a504370eeb87760c6bff91908691d0026d45b179151708b914437cd7d7117") @@
    (<<"whsec_test", "\t1699999699.{\"event\":\"invocation\"}">> :> "83d5afd9ea8953cdbbc0c8805df6475b63f64c06e84ed5f8e2166ad821e55778") @@
    (<<"whsec_test", "\t1699999699.{\"event\":\"invocatioN\"}">> :> "013b9c7f14263005001cf67043645de4b215bbed2e3e1a6e793662aea0017f32") @@
    (<<"whsec_test", "\t1699999699.">> :> "815395b3508d6d13a7593371cded7697423a6e2954c6348b6f327d1ac4670760") @@
    (<<"whsec_other", "\t1699999699.{\"event\":\"invocation\"}">> :> "5eb65e529a82f4974d24a910eff9119e0a57bb256f8554713808c1dc484fe0ea") @@
    (<<"whsec_other", "\t1699999699.{\"event\":\"invocatioN\"}">> :> "702d21dac6091f10e78446f07d3cb89112d04caa55038df4dd4225158aba947d") @@
    (<<"whsec_other", "\t1699999699.">> :> "af7de998d30acbe7dab83dbe5607aa12ddea22656a13f91e41760a51684beeaa")

\* crypto.createHmac('sha256', secret).update(message).digest('hex')
HmacSha256Hex(secret, message) == HmacTable[<<secret, message>>]

\* Buffer.from(s).length for an ASCII string
ByteLength(s) == Len(s)

\* crypto.timingSafeEqual(Buffer.from(a), Buffer.from(b)): a RangeError when
\* the byte lengths differ, else whether the bytes are equal.
TimingSafeEqual(a, b) ==
    IF ByteLength(a) # ByteLength(b)
    THEN [throws |-> TRUE, equal |-> FALSE]
    ELSE [throws |-> FALSE, equal |-> (a = b)]

\* How a call completes: it returns a boolean or throws; hmacs counts the
\* HMAC computations it made.
Return(b, n) == [kind |-> "return", value |-> b, hmacs |-> n]
Throw(n) == [kind |-> "throw", value |-> FALSE, hmacs |-> n]
NoResult == [kind |-> "none", value |-> FALSE, hmacs |-> 0]

\* verifyWebhookSignature(payload, signature, secret, toleranceSeconds) with
\* the clock reading clock.
verifyWebhookSignature(payload, signature, secret, tolerance, clock) ==
    LET parts == Split(signature, ",")
        timestamp == FindField(parts, "t=", 2)
        sig == FindField(parts, "v1=", 3)
    IN  IF MissingField(timestamp, sig) THEN Return(FALSE, 0)
        ELSE LET ts == ParseInt(timestamp.s)
             IN  IF OutsideTolerance(clock, ts, ToleranceSeconds(tolerance))
                 THEN Return(FALSE, 0)
                 ELSE LET expected == HmacSha256Hex(secret, HmacMessage(timestamp.s, payload))
                          cmp == TimingSafeEqual(sig.s, expected)
                      IN  IF cmp.throws THEN Throw(1) ELSE Return(cmp.equal, 1)

(***************************************************************************)
(* The inputs the verifier is called with.                                 *)
(***************************************************************************)
Secrets == {"whsec_test", "whsec_other"}

Payloads == {"{\"event\":\"invocation\"}", "{\"event\":\"invocatioN\"}", ""}

\* The text of the clock's initial reading.
ScenarioTimestamp == "1700000000"

InitialClock == ParseInt(ScenarioTimestamp).n

\* Timestamp fields a sender can sign: the initial clock reading, readings
\* at and one second beyond the default tolerance on either side of it, a
\* reading two seconds ahead, the empty text, two texts that are not
\* decimal integers, and a reading beyond the default tolerance written
\* after a tab.
SignableTimestamps ==
    {"", "1699999699", "1699999700", "1700000000", "1700000002", "1700000300",
     "1700000301", "abc", "1700000000abc", "\t1699999699"}

\* What the sender puts in v1: the digest of "<t>.<payload>" under its key.
Sign(secret, timestamp, payload) == HmacTable[<<secret, timestamp \o "." \o payload>>]

\* The header the sender builds.
SignedHeader(secret, timestamp, payload) ==
    "t=" \o timestamp \o ",v1=" \o Sign(secret, timestamp, payload)

SomeDigest == Sign("whsec_test", ScenarioTimestamp, "")

\* v1 values that are no digest of the sender's: empty, too short, one
\* character short, one character long, and of the right length but wrong.
ForgedSignatures ==
    {"", "abc", SubSeq(SomeDigest, 1, Len(SomeDigest) - 1), SomeDigest \o "0",
     "0000000000000000000000000000000000000000000000000000000000000000"}

SignatureFields(timestamp) ==
    ForgedSignatures \cup {Sign(k, timestamp, p) : k \in Secrets, p \in Payloads}

\* Signature headers: both fields in either order, one field alone, and
\* headers with no field, a repeated field, an unknown field, or keys in
\* upper case.
Headers ==
    UNION {
        UNION {
            {"t=" \o t \o ",v1=" \o d, "v1=" \o d \o ",t=" \o t, "v1=" \o d}
            : d \in SignatureFields(t)} \cup {"t=" \o t}
        : t \in SignableTimestamps}
    \cup {"", "garbage",
          "t=,t=" \o ScenarioTimestamp \o ",v1=" \o SomeDigest,
          "t=" \o ScenarioTimestamp \o ",v0=x,v1=" \o SomeDigest,
          "T=" \o ScenarioTimestamp \o ",V1=" \o SomeDigest}

ToleranceArgs == {Omitted, Given(1)}

\* The arguments of a call and the clock reading it took (at).
NoCall == [made |-> FALSE, payload |-> "", signature |-> "", secret |-> "",
           tolerance |-> Omitted, at |-> 0]

(***************************************************************************)
(* The verifier's operations.                                              *)
(***************************************************************************)
\* Date.now() moves on by a second.
Tick ==
    /\ now < InitialClock + MaxTicks
    /\ now' = now + 1
    /\ UNCHANGED <<vcall, vres, clientVars>>

\* A call verifyWebhookSignature(payload, signature, secret[, tolerance]).
\* The function keeps nothing between calls: vcall and vres only record the
\* call for its caller, who takes the result before calling again.
Verify(payload, signature, secret, tolerance) ==
    /\ ~vcall.made
    /\ vcall' = [made |-> TRUE, payload |-> payload, signature |-> signature,
                 secret |-> secret, tolerance |-> tolerance, at |-> now]
    /\ vres' = verifyWebhookSignature(payload, signature, secret, tolerance, now)
    /\ UNCHANGED <<now, clientVars>>

\* The caller has taken the result of the last call.
TakeResult ==
    /\ vcall.made
    /\ vcall' = NoCall
    /\ vres' = NoResult
    /\ UNCHANGED <<now, clientVars>>

(***************************************************************************)
(* The ClawdNet client (src/src/index.ts, lines 69-242).                   *)
(***************************************************************************)
DEFAULT_BASE_URL == "https://clawdnet.xyz"

\* new ClawdNet(config): apiKey is config.apiKey and baseUrl is
\* config.baseUrl || DEFAULT_BASE_URL.  The empty string stands for a
\* missing (undefined) or empty option: the code tests both for truth only.
Construct(config) ==
    [apiKey |-> config.apiKey,
     baseUrl |-> IF config.baseUrl # "" THEN config.baseUrl ELSE DEFAULT_BASE_URL]

Configs == [apiKey : {"", "sk_test_1"}, baseUrl : {"", "http://localhost:3000"}]

\* A query parameter of listAgents / getTransactions: a number option
\* (limit, offset) or a string option; 0 and "" are falsy and left out.
NumberParam(key, n) == IF n # 0 THEN <<key \o "=" \o NumberToString(n)>> ELSE <<>>
StringParam(key, s) == IF s # "" THEN <<key \o "=" \o s>> ELSE <<>>

\* URLSearchParams.toString(): the pairs joined by "&".  The values of the
\* model are letters and digits, which the encoding leaves as they are.
RECURSIVE JoinParams(_)
JoinParams(pairs) ==
    IF Len(pairs) = 0 THEN ""
    ELSE IF Len(pairs) = 1 THEN pairs[1]
    ELSE pairs[1] \o "&" \o JoinParams(Tail(pairs))

\* The options of a method call, one record for all methods: handle and id
\* are the positional arguments; limit, offset, search, skill and status
\* the query options.
NoArgs == [handle |-> "", id |-> "", limit |-> 0, offset |-> 0, search |-> "",
           skill |-> "", status |-> ""]

ListAgentsParams(args) ==
    NumberParam("limit", args.limit) \o NumberParam("offset", args.offset)
    \o StringParam("search", args.search) \o StringParam("skill", args.skill)
    \o StringParam("status", args.status)

TransactionsParams(args) ==
    NumberParam("limit", args.limit) \o NumberParam("offset", args.offset)

Methods ==
    {"register", "heartbeat", "me", "listAgents", "getAgent", "invoke",
     "getTransactions", "getCapabilities", "listWebhooks", "createWebhook",
     "deleteWebhook"}

\* The mutation of RequiresApiKey that leaves deleteWebhook unguarded.
RequiresApiKeyButDelete(m) ==
    m \in {"heartbeat", "me", "listWebhooks", "createWebhook"}

\* The methods that test this.apiKey before anything else.
RequiresApiKey(m) ==
    m \in {"heartbeat", "me", "listWebhooks", "createWebhook", "deleteWebhook"}

\* The message of the Error such a method throws without an apiKey.
ApiKeyMessage(m) ==
    IF m = "heartbeat" THEN "API key required for heartbeat" ELSE "API key required"

\* The HTTP method of the request a client method makes ("GET" when the
\* options passed to fetch name none).
HttpMethod(m) ==
    IF m \in {"register", "heartbeat", "invoke", "createWebhook"} THEN "POST"
    ELSE IF m = "deleteWebhook" THEN "DELETE"
    ELSE "GET"

\* Whether the request carries body: JSON.stringify(options).
HasBody(m) == m \in {"register", "heartbeat", "invoke", "createWebhook"}

\* The path a client method passes to fetch.
Path(m, args) ==
    CASE m = "register" -> "/api/v1/agents/register"
      [] m = "heartbeat" -> "/api/v1/agents/heartbeat"
      [] m = "me" -> "/api/v1/agents/me"
      [] m = "listAgents" -> "/api/agents?" \o JoinParams(ListAgentsParams(args))
      [] m = "getAgent" -> "/api/agents/" \o args.handle
      [] m = "invoke" -> "/api/agents/" \o args.handle \o "/invoke"
      [] m = "getTransactions" ->
            "/api/agents/" \o args.handle \o "/transactions?"
            \o JoinParams(TransactionsParams(args))
      [] m = "getCapabilities" -> "/api/capabilities"
      [] m = "listWebhooks" -> "/api/v1/webhooks"
      [] m = "createWebhook" -> "/api/v1/webhooks"
      [] m = "deleteWebhook" -> "/api/v1/webhooks?id=" \o args.id

\* The arguments each method is called with in the model.
ArgsOf(m) ==
    CASE m \in {"getAgent", "invoke"} -> {[NoArgs EXCEPT !.handle = "alice"]}
      [] m = "getTransactions" ->
            {[NoArgs EXCEPT !.handle = "alice"],
             [NoArgs EXCEPT !.handle = "alice", !.limit = 10, !.offset = 20]}
      [] m = "listAgents" ->
            {NoArgs,
             [NoArgs EXCEPT !.limit = 10, !.search = "ai", !.status = "online"]}
      [] m = "deleteWebhook" -> {[NoArgs EXCEPT !.id = "wh1"]}
      [] OTHER -> {NoArgs}

\* The request ClawdNet.fetch issues: the headers it builds (Content-Type,
\* and Authorization when this.apiKey is truthy; "" for a header not set)
\* and the URL `${this.baseUrl}${path}`.
NoRequest == [sent |-> FALSE, method |-> "", url |-> "", contentType |-> "",
              authorization |-> "", body |-> FALSE]

BuildRequest(c, m, args) ==
    [sent |-> TRUE,
     method |-> HttpMethod(m),
     url |-> c.baseUrl \o Path(m, args),
     contentType |-> "application/json",
     authorization |-> IF c.apiKey # "" THEN "Bearer " \o c.apiKey ELSE "",
     body |-> HasBody(m)]

\* A JSON value of a response body, as far as fetch looks at it: its type,
\* whether it is an object with an own `error` property, and that property.
\* A property value is a string (s), a number (n, an integer >= 0), a
\* boolean (n is 1 for true), null, an array of strings (items), or an
\* object, which has an own "toString" key (ownToString) or not.
Prop(type) == [type |-> type, s |-> "", n |-> 0, items |-> <<>>, ownToString |-> FALSE]
PropString(s) == [Prop("string") EXCEPT !.s = s]
PropNumber(n) == [Prop("number") EXCEPT !.n = n]
PropBoolean(b) == [Prop("boolean") EXCEPT !.n = IF b THEN 1 ELSE 0]
PropNull == Prop("null")
PropArray(items) == [Prop("array") EXCEPT !.items = items]
PropObject == Prop("object")
PropObjectWithToString == [Prop("object") EXCEPT !.ownToString = TRUE]
PropUndefined == Prop("undefined")

JsonNull == [type |-> "null", hasError |-> FALSE, error |-> PropUndefined]
JsonString == [type |-> "string", hasError |-> FALSE, error |-> PropUndefined]
JsonArray == [type |-> "array", hasError |-> FALSE, error |-> PropUndefined]
EmptyObject == [type |-> "object", hasError |-> FALSE, error |-> PropUndefined]
ObjectWithError(e) == [type |-> "object", hasError |-> TRUE, error |-> e]

\* A response body: text that parses as JSON to the value json ("json"),
\* the text raw that does not, with the message of the SyntaxError the
\* runtime's JSON parser gives for it ("text"), a body whose transfer fails
\* while it is read ("failed"), or no body yet ("none").
Json(v) == [kind |-> "json", raw |-> "", message |-> "", json |-> v]
Text(raw, message) ==
    [kind |-> "text", raw |-> raw, message |-> message, json |-> EmptyObject]
FailedBody == [kind |-> "failed", raw |-> "", message |-> "terminated", json |-> EmptyObject]
NoBody == [kind |-> "none", raw |-> "", message |-> "", json |-> EmptyObject]

\* response.json().catch(() => ({})): the parsed value, or {} when
\* response.json() rejects.
JsonOrEmpty(body) == IF body.kind = "json" THEN body.json ELSE EmptyObject

\* Truthiness of a property value.
Truthy(v) ==
    CASE v.type = "string" -> v.s # ""
      [] v.type = "number" -> v.n # 0
      [] v.type = "boolean" -> v.n = 1
      [] v.type = "object" -> TRUE
      [] v.type = "array" -> TRUE
      [] OTHER -> FALSE

\* Array.prototype.join(',') for an array of strings.
RECURSIVE JoinItems(_)
JoinItems(items) ==
    IF Len(items) = 0 THEN ""
    ELSE IF Len(items) = 1 THEN items[1]
    ELSE items[1] \o "," \o JoinItems(Tail(items))

\* The outcome of a string conversion: the text, or a TypeError.
Converted(s) == [throws |-> FALSE, s |-> s]
CannotConvert == [throws |-> TRUE, s |-> "Cannot convert object to primitive value"]

\* The conversion new Error(v) makes of a truthy property value to its
\* message.  An object parsed from JSON with an own "toString" key has no
\* callable toString, and valueOf gives the object: a TypeError.
StringOf(v) ==
    CASE v.type = "string" -> Converted(v.s)
      [] v.type = "number" -> Converted(NumberToString(v.n))
      [] v.type = "boolean" -> Converted("true")
      [] v.type = "array" -> Converted(JoinItems(v.items))
      [] OTHER -> IF v.ownToString THEN CannotConvert ELSE Converted("[object Object]")

\* response.ok
Ok(status) == 200 <= status /\ status <= 299

\* How a promise settles.
Unsettled == [state |-> "none", error |-> "", message |-> ""]
Pending == [state |-> "pending", error |-> "", message |-> ""]
Resolved == [state |-> "resolved", error |-> "", message |-> ""]
Rejected(error, message) == [state |-> "rejected", error |-> error, message |-> message]

\* The message of new Error(error.error || `Request failed:
\* ${response.status}`) for a parsed body error that is not null, or the
\* TypeError its conversion throws.
FailureMessage(status, error) ==
    IF error.hasError /\ Truthy(error.error)
    THEN StringOf(error.error)
    ELSE Converted("Request failed: " \o NumberToString(status))

\* What ClawdNet.fetch does once the body of a response is read or has
\* failed.  For a status that is not ok it throws new Error(error.error ||
\* ...), where reading a property of null, and converting an object
\* without a callable toString, is a TypeError.  Else it returns
\* response.json(), whose rejection it passes on as it is: the parser's
\* SyntaxError on a body that does not parse, a TypeError on a body whose
\* transfer fails.
FetchSettle(status, body) ==
    IF ~Ok(status)
    THEN LET error == JsonOrEmpty(body)
         IN  IF error.type = "null"
             THEN Rejected("TypeError", "Cannot read properties of null (reading 'error')")
             ELSE LET message == FailureMessage(status, error)
                  IN  IF message.throws THEN Rejected("TypeError", message.s)
                      ELSE Rejected("Error", message.s)
    ELSE CASE body.kind = "json" -> Resolved
           [] body.kind = "text" -> Rejected("SyntaxError", body.message)
           [] OTHER -> Rejected("TypeError", body.message)

Statuses == {200, 204, 400, 401, 402, 404, 429, 500}

Bodies ==
    {Text("", "Unexpected end of JSON input"),
     Text("<html>oops</html>",
          "Unexpected token '<', \"<html>oops</html>\" is not valid JSON"),
     Text("<html><body>Internal Server Error</body></html>",
          "Unexpected token '<', \"<html><bod\"... is not valid JSON"),
     Text("{\"agents\":[", "Unexpected end of JSON input"),
     Text("NaN", "\"NaN\" is not valid JSON"),
     FailedBody,
     Json(JsonNull), Json(JsonString), Json(JsonArray), Json(EmptyObject),
     Json(ObjectWithError(PropString("Payment required"))),
     Json(ObjectWithError(PropString("429 Too Many Requests"))),
     Json(ObjectWithError(PropString(""))),
     Json(ObjectWithError(PropNumber(404))),
     Json(ObjectWithError(PropBoolean(TRUE))),
     Json(ObjectWithError(PropNull)),
     Json(ObjectWithError(PropArray(<<"a", "b">>))),
     Json(ObjectWithError(PropObject)),
     Json(ObjectWithError(PropObjectWithToString))}

NoResponse == [received |-> FALSE, status |-> 0, body |-> NoBody]

\* A client method is called: a method that requires an apiKey throws
\* before anything else when the client has none; every other call goes to
\* ClawdNet.fetch, which issues the request and awaits the response.  The
\* model follows one call at a time: calls share nothing but the client's
\* apiKey and baseUrl, which only the constructor writes.
Call(m, args) ==
    /\ pc = "idle"
    /\ called' = m
    /\ response' = NoResponse
    /\ IF RequiresApiKey(m) /\ client.apiKey = ""
       THEN /\ request' = NoRequest
            /\ settled' = Rejected("Error", ApiKeyMessage(m))
            /\ pc' = "idle"
       ELSE /\ request' = BuildRequest(client, m, args)
            /\ settled' = Pending
            /\ pc' = "waiting"
    /\ UNCHANGED <<client, verifierVars>>

\* await fetch(...) resumes: the status line and the headers of the
\* response are in, its body is not; the promise stays pending.
ReceiveResponse(status) ==
    /\ pc = "waiting"
    /\ response' = [received |-> TRUE, status |-> status, body |-> NoBody]
    /\ pc' = "reading"
    /\ UNCHANGED <<client, called, request, settled, verifierVars>>

\* response.json() settles: the body is complete, or its transfer has
\* failed, and ClawdNet.fetch settles the method's promise.
ReadBody(body) ==
    /\ pc = "reading"
    /\ response' = [response EXCEPT !.body = body]
    /\ settled' = FetchSettle(response.status, body)
    /\ pc' = "idle"
    /\ UNCHANGED <<client, called, request, verifierVars>>

\* The request fails without a response: the global fetch rejects and the
\* rejection passes through ClawdNet.fetch.
NetworkFailure ==
    /\ pc = "waiting"
    /\ settled' = Rejected("TypeError", "fetch failed")
    /\ pc' = "idle"
    /\ UNCHANGED <<client, called, request, response, verifierVars>>

(***************************************************************************)
(* The specifications: the verifier, and the client.  The two share no     *)
(* state, so each is checked on its own.                                   *)
(***************************************************************************)
\* No call made yet; the client is new ClawdNet(config).
InitWith(config) ==
    /\ now = InitialClock
    /\ vcall = NoCall
    /\ vres = NoResult
    /\ client = Construct(config)
    /\ called = ""
    /\ pc = "idle"
    /\ request = NoRequest
    /\ response = NoResponse
    /\ settled = Unsettled

\* The verifier does not read the client: its specification starts with the
\* client of the default config, new ClawdNet().
Init == InitWith([apiKey |-> "", baseUrl |-> ""])

ClientInit == \E config \in Configs : InitWith(config)

Next ==
    \/ Tick
    \/ TakeResult
    \/ \E payload \in Payloads, signature \in Headers, secret \in Secrets,
          tolerance \in ToleranceArgs :
           Verify(payload, signature, secret, tolerance)

Spec == Init /\ [][Next]_vars

ClientNext ==
    \/ \E m \in Methods : \E args \in ArgsOf(m) : Call(m, args)
    \/ \E status \in Statuses : ReceiveResponse(status)
    \/ \E body \in Bodies : ReadBody(body)
    \/ NetworkFailure

ClientSpec == ClientInit /\ [][ClientNext]_vars

(***************************************************************************)
(* Terms the properties of the verifier are stated in.                     *)
(***************************************************************************)
\* The fields of the last call's signature header.
CallParts == Split(vcall.signature, ",")

\* No field of the header starts with prefix.
NoFieldWith(prefix) == \A i \in 1..Len(CallParts) : ~StartsWith(CallParts[i], prefix)

\* The first field of the header that starts with prefix is the prefix alone.
EmptyFieldWith(prefix) ==
    \E i \in 1..Len(CallParts) :
        /\ CallParts[i] = prefix
        /\ \A j \in 1..(i - 1) : ~StartsWith(CallParts[j], prefix)

\* The header has a t= field with a value, and a v1= field with a value.
HasBothFields ==
    /\ ~NoFieldWith("t=") /\ ~EmptyFieldWith("t=")
    /\ ~NoFieldWith("v1=") /\ ~EmptyFieldWith("v1=")

\* The text after t= in the first t= field, and after v1= in the first v1=.
CallTimestampText ==
    LET i == CHOOSE k \in 1..Len(CallParts) :
                 /\ StartsWith(CallParts[k], "t=")
                 /\ \A j \in 1..(k - 1) : ~StartsWith(CallParts[j], "t=")
    IN  SubSeq(CallParts[i], 3, Len(CallParts[i]))

CallSignatureText ==
    LET i == CHOOSE k \in 1..Len(CallParts) :
                 /\ StartsWith(CallParts[k], "v1=")
                 /\ \A j \in 1..(k - 1) : ~StartsWith(CallParts[j], "v1=")
    IN  SubSeq(CallParts[i], 4, Len(CallParts[i]))

\* s is the decimal text of a non-negative integer: digits and nothing else.
IsDecimalText(s) ==
    /\ Len(s) > 0
    /\ \A i \in 1..Len(s) : SubSeq(s, i, i) \in {"0", "1", "2", "3", "4", "5", "6", "7", "8", "9"}

\* The number a decimal text denotes.
RECURSIVE DecimalValue(_)
DecimalValue(s) ==
    IF Len(s) = 0 THEN 0
    ELSE 10 * DecimalValue(SubSeq(s, 1, Len(s) - 1))
         + (CHOOSE d \in 0..9 : NumberToString(d) = SubSeq(s, Len(s), Len(s)))

\* The longest prefix of s made of decimal digits.
RECURSIVE LeadingDigits(_)
LeadingDigits(s) ==
    IF Len(s) > 0 /\ IsDecimalText(SubSeq(s, 1, 1))
    THEN SubSeq(s, 1, 1) \o LeadingDigits(SubSeq(s, 2, Len(s)))
    ELSE ""

\* s without its leading white space (space, tab, line feed, carriage
\* return, form feed).
RECURSIVE TrimLeft(_)
TrimLeft(s) ==
    IF Len(s) > 0 /\ SubSeq(s, 1, 1) \in {" ", "\t", "\n", "\r", "\f"}
    THEN TrimLeft(SubSeq(s, 2, Len(s)))
    ELSE s

\* The decimal timestamp a header field text starts with, "" when none.
TimestampDigits(s) == LeadingDigits(TrimLeft(s))

\* The tolerance the last call ran with.
CallTolerance == IF vcall.tolerance.omitted THEN 300 ELSE vcall.tolerance.value

\* The distance between the clock reading of the last call and timestamp t.
Drift(t) == IF vcall.at >= t THEN vcall.at - t ELSE t - vcall.at

\* The last call's header is the sender's header for timestamp text t over
\* payload p under the call's secret.
SignedOver(t, p) == vcall.signature = SignedHeader(vcall.secret, t, p)

DecimalTimestamps == {t \in SignableTimestamps : IsDecimalText(t)}

(***************************************************************************)
(* Properties of verifyWebhookSignature.                                   *)
(***************************************************************************)
\* C1: verifyWebhookSignature never raises a fault: every call, whatever the
\* payload, header, secret and tolerance, completes by returning a boolean.
C1_NeverThrows == vcall.made => vres.kind = "return"

\* C2: when the header is t=<T>,v1=<D> with T the decimal text of the
\* verifier's current second and D the hex HMAC-SHA256 under the secret of
\* "<T>.<payload>", the call returns true.
C2_CurrentSignatureVerifies ==
    (/\ vcall.made
     /\ NumberToString(vcall.at) \in SignableTimestamps
     /\ SignedOver(NumberToString(vcall.at), vcall.payload))
    => (vres.kind = "return" /\ vres.value = TRUE)

\* A correctly signed header stamped with the current second was verified,
\* after the clock had moved on from its initial reading.
C2_Witness ==
    /\ vcall.made
    /\ vcall.at > InitialClock
    /\ vcall.payload # ""
    /\ NumberToString(vcall.at) \in SignableTimestamps
    /\ SignedOver(NumberToString(vcall.at), vcall.payload)
    /\ vres.kind = "return" /\ vres.value = TRUE

\* C3: with a correct digest, the call returns true when |now - timestamp|
\* equals the tolerance exactly and false when it is the tolerance plus one
\* or more, for timestamps in the past and in the future of now.
C3_ToleranceBoundary ==
    \A t \in DecimalTimestamps :
        (vcall.made /\ SignedOver(t, vcall.payload)) =>
            /\ (Drift(DecimalValue(t)) = CallTolerance
                    => (vres.kind = "return" /\ vres.value = TRUE))
            /\ (Drift(DecimalValue(t)) >= CallTolerance + 1
                    => (vres.kind = "return" /\ vres.value = FALSE))

\* A correctly signed header exactly 300 seconds old was verified with the
\* default tolerance.
C3_Witness ==
    /\ vcall.made /\ vcall.tolerance.omitted
    /\ \E t \in DecimalTimestamps :
        /\ SignedOver(t, vcall.payload)
        /\ vcall.at - DecimalValue(t) = 300
    /\ vres.kind = "return" /\ vres.value = TRUE

\* C4: replay bound: a header is accepted only if it carries a timestamp
\* and the verifier's clock has not advanced more than the tolerance past
\* it, so no accepted header stays acceptable for ever as the clock advances.
C4_ReplayBound ==
    (vcall.made /\ vres.kind = "return" /\ vres.value = TRUE) =>
        /\ HasBothFields
        /\ TimestampDigits(CallTimestampText) # ""
        /\ vcall.at - DecimalValue(TimestampDigits(CallTimestampText)) <= CallTolerance

\* C5: a header correctly signed over a payload P makes a call with any
\* other payload return false.
C5_PayloadIntegrity ==
    \A t \in SignableTimestamps, p \in Payloads :
        (vcall.made /\ p # vcall.payload /\ SignedOver(t, p))
            => (vres.kind = "return" /\ vres.value = FALSE)

\* A header signed over another payload, inside the tolerance window, was
\* compared with the expected digest and rejected.
C5_Witness ==
    /\ vcall.made
    /\ \E t \in DecimalTimestamps, p \in Payloads :
        /\ p # vcall.payload
        /\ SignedOver(t, p)
        /\ Drift(DecimalValue(t)) <= CallTolerance
    /\ vres = Return(FALSE, 1)

\* C6: a header with no t= field or no v1= field, or with nothing after the
\* prefix, makes the call return false without computing an HMAC.
C6_MissingFieldFailsClosed ==
    (/\ vcall.made
     /\ \/ NoFieldWith("t=") \/ EmptyFieldWith("t=")
        \/ NoFieldWith("v1=") \/ EmptyFieldWith("v1="))
    => vres = Return(FALSE, 0)

\* A header whose t= field is inside the window and whose v1= field is
\* empty was rejected.
C6_Witness ==
    /\ vcall.made
    /\ vcall.signature = "t=" \o ScenarioTimestamp \o ",v1="
    /\ vres = Return(FALSE, 0)

\* C7: a t= field that is not a base-10 integer makes the call return
\* false, whatever the payload, secret, v1 value and clock.
C7_NonNumericTimestampRejected ==
    (vcall.made /\ HasBothFields /\ ~IsDecimalText(CallTimestampText))
        => (vres.kind = "return" /\ vres.value = FALSE)

\* C8: a t= field inside the tolerance window and a v1 value whose length
\* is not that of the expected digest make the call return false.
C8_LengthMismatchIsUnequal ==
    (/\ vcall.made /\ HasBothFields
     /\ IsDecimalText(CallTimestampText)
     /\ Drift(DecimalValue(CallTimestampText)) <= CallTolerance
     /\ Len(CallSignatureText) # 64)
    => (vres.kind = "return" /\ vres.value = FALSE)

(***************************************************************************)
(* Properties of the client.                                               *)
(***************************************************************************)
\* The last method call got a response whose status is not 2xx.
FailedResponse == pc = "idle" /\ response.received /\ ~(response.status \in 200..299)

\* The response body is a JSON object with an `error` field.
BodyHasErrorField ==
    response.body.kind = "json" /\ response.body.json.type = "object"
    /\ response.body.json.hasError

\* C9: on a non-2xx response the promise rejects with an Error whose message
\* is the `error` field of the JSON body when that field is present, and
\* "Request failed: <status>" when it is absent or the body does not parse.
C9_FailureMessage ==
    FailedResponse =>
        /\ settled.state = "rejected"
        /\ IF BodyHasErrorField
           THEN /\ response.body.json.error.type = "string"
                /\ settled.message = response.body.json.error.s
           ELSE settled.message = "Request failed: " \o NumberToString(response.status)

\* C10: when a call fails with status 401, 402, 404 or 429, the message of
\* the Error contains that status code, whatever body came with it.
C10_MessageNamesStatus ==
    (FailedResponse /\ response.status \in {401, 402, 404, 429}) =>
        /\ settled.state = "rejected"
        /\ Includes(settled.message, NumberToString(response.status))

\* The methods C11 names as needing an apiKey, and those it names as open.
KeyedMethods == {"heartbeat", "me", "listWebhooks", "createWebhook", "deleteWebhook"}

OpenMethods ==
    {"register", "listAgents", "getAgent", "invoke", "getTransactions",
     "getCapabilities"}

\* C11: without an apiKey, heartbeat, me, listWebhooks, createWebhook and
\* deleteWebhook reject with an 'API key required' error and issue no
\* request, at any point of the call, while the other methods issue their
\* request without an Authorization header; with an apiKey every method
\* issues its request with Authorization: Bearer <apiKey>.
C11_ApiKeyGuard ==
    /\ (client.apiKey = "" /\ called \in KeyedMethods) =>
            /\ pc = "idle"
            /\ ~request.sent
            /\ settled.state = "rejected"
            /\ settled.error = "Error"
            /\ Includes(settled.message, "API key required")
    /\ (client.apiKey = "" /\ called \in OpenMethods) =>
            (request.sent /\ request.authorization = "")
    /\ (client.apiKey # "" /\ called \in KeyedMethods \cup OpenMethods) =>
            (request.sent /\ request.authorization = "Bearer " \o client.apiKey)

\* deleteWebhook was called on a client without an apiKey and rejected
\* with no request issued.
C11_Witness ==
    /\ client.apiKey = ""
    /\ called = "deleteWebhook"
    /\ ~request.sent
    /\ settled = Rejected("Error", "API key required")

====
